---------------------------- MODULE Spec2Model ----------------------------
(***************************************************************************)
(* Baker Street Laboratory: the research session pipeline.                 *)
(*                                                                         *)
(* ResearchOrchestrator objects are constructed (each draws its session_id *)
(* once, in __init__), conduct_research / run_pipeline calls are started   *)
(* on them and advance one step at a time: session set-up, the four        *)
(* phases, the report file's open and write, and the return of the result  *)
(* dictionary.  Calls interleave between steps: the API serves every       *)
(* request through one module-level orchestrator on the threaded Flask     *)
(* server, and separate processes share the file system.  The connector    *)
(* behind a phase either returns or raises an Exception; that outcome is   *)
(* an input of the step.                                                   *)
(***************************************************************************)
EXTENDS Integers, Sequences, FiniteSets, TLC

\* ------------------------------------------------------------------ bounds
MaxOrch == 2
MaxCalls == 2
NumDirs == 2
MaxStatus == 1

Orchs == 1..MaxOrch
Calls == 1..MaxCalls
Dirs == 1..NumDirs
Sids == 1..MaxOrch

\* ------------------------------------------------------------- program data
sample_query == "Latest developments in AI research"

\* ------------------------------------------------------------------- text
\* A text is a sequence of characters.  TLC cannot index a string, so the
\* queries the pipeline is run on are spelled out character by character.

UpperCase ==
    <<"A", "B", "C", "D", "E", "F", "G", "H", "I", "J", "K", "L", "M", "N",
    "O", "P", "Q", "R", "S", "T", "U", "V", "W", "X", "Y", "Z">>

LowerCase ==
    <<"a", "b", "c", "d", "e", "f", "g", "h", "i", "j", "k", "l", "m", "n",
    "o", "p", "q", "r", "s", "t", "u", "v", "w", "x", "y", "z">>

\* str.lower() on one character
LowerChar(ch) ==
    IF \E i \in 1..Len(UpperCase) : UpperCase[i] = ch
    THEN LowerCase[CHOOSE i \in 1..Len(UpperCase) : UpperCase[i] = ch]
    ELSE ch

\* str.lower()
Lower(s) == [i \in 1..Len(s) |-> LowerChar(s[i])]

\* sub in s
Contains(s, sub) ==
    \E i \in 0..(Len(s) - Len(sub)) :
        \A j \in 1..Len(sub) : s[i + j] = sub[j]

\* any(word in s for word in words)
AnyIn(words, s) == \E k \in 1..Len(words) : Contains(s, words[k])

\* _determine_research_type, line 320
philosophical_words ==
    << <<"m", "e", "a", "n", "i", "n", "g">>,
       <<"p", "u", "r", "p", "o", "s", "e">>,
       <<"p", "h", "i", "l", "o", "s", "o", "p", "h", "y">>,
       <<"e", "x", "i", "s", "t", "e", "n", "c", "e">> >>

\* _determine_research_type, line 322
technical_words ==
    << <<"t", "e", "c", "h", "n", "o", "l", "o", "g", "y">>,
       <<"s", "c", "i", "e", "n", "c", "e">>,
       <<"r", "e", "s", "e", "a", "r", "c", "h">> >>

\* _determine_research_type, line 324
historical_words ==
    << <<"h", "i", "s", "t", "o", "r", "y">>,
       <<"h", "i", "s", "t", "o", "r", "i", "c", "a", "l">>,
       <<"p", "a", "s", "t">> >>

\* A classifier that looks for the keywords in the query as typed.
determine_research_type_CaseSensitive(query) ==
    IF AnyIn(philosophical_words, query) THEN "philosophical"
    ELSE IF AnyIn(technical_words, query) THEN "technical"
    ELSE IF AnyIn(historical_words, query) THEN "historical"
    ELSE "general"

determine_research_type(query) ==
    LET query_lower == Lower(query)
    IN IF AnyIn(philosophical_words, query_lower) THEN "philosophical"
       ELSE IF AnyIn(technical_words, query_lower) THEN "technical"
       ELSE IF AnyIn(historical_words, query_lower) THEN "historical"
       ELSE "general"

\* concept_keywords, lines 335-341, in the order of the dictionary
concept_names == <<"meaning", "life", "philosophy", "science", "technology">>

\* concept_keywords['meaning']
meaning_keywords ==
    << <<"m", "e", "a", "n", "i", "n", "g">>,
       <<"p", "u", "r", "p", "o", "s", "e">>,
       <<"s", "i", "g", "n", "i", "f", "i", "c", "a", "n", "c", "e">> >>

\* concept_keywords['life']
life_keywords ==
    << <<"l", "i", "f", "e">>,
       <<"e", "x", "i", "s", "t", "e", "n", "c", "e">>,
       <<"b", "e", "i", "n", "g">> >>

\* concept_keywords['philosophy']
philosophy_keywords ==
    << <<"p", "h", "i", "l", "o", "s", "o", "p", "h", "y">>,
       <<"p", "h", "i", "l", "o", "s", "o", "p", "h", "i", "c", "a", "l">>,
       <<"e", "t", "h", "i", "c", "s">> >>

\* concept_keywords['science']
science_keywords ==
    << <<"s", "c", "i", "e", "n", "c", "e">>,
       <<"s", "c", "i", "e", "n", "t", "i", "f", "i", "c">>,
       <<"r", "e", "s", "e", "a", "r", "c", "h">> >>

\* concept_keywords['technology']
technology_keywords ==
    << <<"t", "e", "c", "h", "n", "o", "l", "o", "g", "y">>,
       <<"t", "e", "c", "h">>,
       <<"i", "n", "n", "o", "v", "a", "t", "i", "o", "n">> >>

concept_keywords ==
    <<meaning_keywords, life_keywords, philosophy_keywords, science_keywords,
      technology_keywords>>

\* The loop of lines 343-345 over the first n entries of the table.
RECURSIVE ConceptsUpTo(_, _)
ConceptsUpTo(query_lower, n) ==
    IF n = 0 THEN <<>>
    ELSE LET before == ConceptsUpTo(query_lower, n - 1)
         IN IF AnyIn(concept_keywords[n], query_lower)
            THEN Append(before, concept_names[n])
            ELSE before

\* An extraction that returns the matches without the default.
extract_key_concepts_NoDefault(query) ==
    ConceptsUpTo(Lower(query), Len(concept_names))

extract_key_concepts(query) ==
    LET concepts == ConceptsUpTo(Lower(query), Len(concept_names))
    IN IF concepts = <<>> THEN <<"general">> ELSE concepts

generate_search_strategies(query) ==
    << <<"\"">> \o query \o <<"\"">>,
       query \o <<" ", "r", "e", "s", "e", "a", "r", "c", "h">>,
       query \o <<" ", "a", "n", "a", "l", "y", "s", "i", "s">>,
       query \o <<" ", "o", "v", "e", "r", "v", "i", "e", "w">> >>

\* A plan whose search strategies carry the orchestrator's session id.
analyze_query_plan_WithSession(self_session_id, query) ==
    [query |-> query,
     research_type |-> determine_research_type(query),
     key_concepts |-> extract_key_concepts(query),
     search_strategies |-> Append(generate_search_strategies(query),
                                  <<self_session_id>>),
     expected_sources |-> <<"academic", "web", "books", "reports">>]

\* The plan _analyze_query builds on an orchestrator with that session id.
analyze_query_plan(self_session_id, query) ==
    [query |-> query,
     research_type |-> determine_research_type(query),
     key_concepts |-> extract_key_concepts(query),
     search_strategies |-> generate_search_strategies(query),
     expected_sources |-> <<"academic", "web", "books", "reports">>]

NoPlan == [research_type |-> "none"]

featured_query == "What is the meaning of life?"

blank_query == "   "

sample_query_chars ==
    <<"L", "a", "t", "e", "s", "t", " ", "d", "e", "v", "e", "l", "o", "p",
    "m", "e", "n", "t", "s", " ", "i", "n", " ", "A", "I", " ", "r", "e",
    "s", "e", "a", "r", "c", "h">>

featured_query_chars ==
    <<"W", "h", "a", "t", " ", "i", "s", " ", "t", "h", "e", " ", "m", "e",
    "a", "n", "i", "n", "g", " ", "o", "f", " ", "l", "i", "f", "e", "?">>

\* The characters of a query of the pipeline.
Chars(q) ==
    IF q = sample_query THEN sample_query_chars
    ELSE IF q = featured_query THEN featured_query_chars
    ELSE IF q = blank_query THEN <<" ", " ", " ">>
    ELSE <<>>

\* ----------------------------------------------------------- report text
\* The text of a report is a sequence of atoms: the characters of the query
\* and the fixed texts of the templates.  A fixed text starts and ends with
\* a character that is not whitespace.  Characters outside ASCII are named
\* by their code point.

nbsp == "U+00A0"

e_acute == "U+00E9"

\* A surrogate without its pair: a str may hold it, utf-8 cannot encode it.
lone_surrogate == "U+DCFF"

\* str.isspace() for the characters of the queries
Whitespace == {" ", "\t", "\n", "\r", nbsp}

\* query.strip() == ""
IsBlank(s) == \A i \in 1..Len(s) : s[i] \in Whitespace

\* analysis.get(key, default)
Get(analysis, key, default) ==
    IF key \in DOMAIN analysis THEN analysis[key] ELSE default

\* datetime.now().strftime('%Y-%m-%d %H:%M:%S')
now_text == <<"2026-11-03", " ", "05:30:01">>

\* chr(10).join(f"- {finding}" for finding in key_findings), first n findings
RECURSIVE JoinFindingsUpTo(_, _)
JoinFindingsUpTo(findings, n) ==
    IF n = 0 THEN <<>>
    ELSE (IF n = 1 THEN <<>> ELSE JoinFindingsUpTo(findings, n - 1) \o <<"\n">>)
         \o <<"-", " ", findings[n]>>

JoinFindings(findings) == JoinFindingsUpTo(findings, Len(findings))

\* ', '.join(themes), first n themes
RECURSIVE JoinThemesUpTo(_, _)
JoinThemesUpTo(themes, n) ==
    IF n = 0 THEN <<>>
    ELSE (IF n = 1 THEN <<>> ELSE JoinThemesUpTo(themes, n - 1) \o <<",", " ">>)
         \o <<themes[n]>>

JoinThemes(themes) == JoinThemesUpTo(themes, Len(themes))

\* len(t.split()) for each fixed text of more than one word: the texts of
\* the two report templates and of the analysis of lines 141-151.
text_words ==
    "# Research Report:" :> 3
    @@ "# Research Report: The Meaning of Life" :> 7
    @@ "## Analysis Summary" :> 3
    @@ "## Confidence Score" :> 3
    @@ "## Executive Summary" :> 3
    @@ "## Executive Summary ... **Research Quality Score:**" :> 636
    @@ "## Key Findings" :> 3
    @@ "## Themes Identified" :> 3
    @@ "**Generated by:** Baker Street Laboratory Research Pipeline" :> 7
    @@ "**Methodology:** Multi-perspective analysis with emphasis on both historical and contemporary viewpoints" :> 11
    @@ "**Session ID:**" :> 2
    @@ "**Sources Analyzed:** Academic papers, philosophical works, scientific studies, cultural texts" :> 10
    @@ "*This report was generated by the Baker Street Laboratory research pipeline.*" :> 11
    @@ "Adoption doubled" :> 2
    @@ "Analysis completed successfully" :> 3
    @@ "Comprehensive analysis completed with high confidence" :> 6
    @@ "Historical context provides important framework" :> 5
    @@ "Modern interpretations vary significantly" :> 4
    @@ "Multiple philosophical perspectives exist on this topic" :> 7
    @@ "Practical applications are diverse" :> 4
    @@ "Research confidence:" :> 2
    @@ "Short analysis" :> 2
    @@ "This report presents research findings on:" :> 6

\* _generate_meaning_of_life_report, lines 181-282; the text of lines
\* 189-279 is one atom.
generate_meaning_of_life_report(self_session_id, analysis) ==
       <<"# Research Report: The Meaning of Life", "\n", "\n",
         "**Session ID:**", " ">>
    \o <<self_session_id>>
    \o <<" ", " ", "\n", "**Date:**", " ">>
    \o now_text
    \o <<" ", " ", "\n",
         "**Generated by:** Baker Street Laboratory Research Pipeline",
         "\n", "\n",
         "## Executive Summary ... **Research Quality Score:**", " ">>
    \o <<Get(analysis, "confidence_score", "0.78")>>
    \o <<"/1.0", " ", " ", "\n",
         "**Sources Analyzed:** Academic papers, philosophical works, scientific studies, cultural texts",
         " ", " ", "\n",
         "**Methodology:** Multi-perspective analysis with emphasis on both historical and contemporary viewpoints",
         "\n">>

\* _generate_generic_report, lines 284-315
generate_generic_report(self_session_id, query, analysis) ==
       <<"# Research Report:", " ">>
    \o query
    \o <<"\n", "\n", "**Session ID:**", " ">>
    \o <<self_session_id>>
    \o <<" ", " ", "\n", "**Date:**", " ">>
    \o now_text
    \o <<" ", " ", "\n",
         "**Generated by:** Baker Street Laboratory Research Pipeline",
         "\n", "\n", "## Executive Summary", "\n", "\n",
         "This report presents research findings on:", " ">>
    \o query
    \o <<"\n", "\n", "## Key Findings", "\n", "\n">>
    \o JoinFindings(Get(analysis, "key_findings", <<>>))
    \o <<"\n", "\n", "## Analysis Summary", "\n", "\n">>
    \o <<Get(analysis, "analysis_summary", "Analysis completed successfully")>>
    \o <<"\n", "\n", "## Themes Identified", "\n", "\n">>
    \o JoinThemes(Get(analysis, "themes", <<>>))
    \o <<"\n", "\n", "## Confidence Score", "\n", "\n",
         "Research confidence:", " ">>
    \o <<Get(analysis, "confidence_score", "0.75")>>
    \o <<"/1.0", "\n", "\n", "---", "\n", "\n",
         "*This report was generated by the Baker Street Laboratory research pipeline.*",
         "\n">>

meaning_of_life == <<"m", "e", "a", "n", "i", "n", "g", " ", "o", "f", " ",
                     "l", "i", "f", "e">>

\* A generator that uses the enriched template for the featured query only.
report_content_FeaturedQueryOnly(self_session_id, query, analysis) ==
    IF Lower(query) = Lower(featured_query_chars)
    THEN generate_meaning_of_life_report(self_session_id, analysis)
    ELSE generate_generic_report(self_session_id, query, analysis)

\* report_content of _generate_report, lines 163-167
report_content(self_session_id, query, analysis) ==
    IF Contains(Lower(query), meaning_of_life)
    THEN generate_meaning_of_life_report(self_session_id, analysis)
    ELSE generate_generic_report(self_session_id, query, analysis)

\* The words one atom holds.
Words(t) == IF t \in DOMAIN text_words THEN text_words[t] ELSE 1

\* The sum of nums[lo..hi].
RECURSIVE SumRange(_, _, _)
SumRange(nums, lo, hi) ==
    IF lo > hi THEN 0
    ELSE IF lo = hi THEN nums[lo]
    ELSE LET mid == (lo + hi) \div 2
         IN SumRange(nums, lo, mid) + SumRange(nums, mid + 1, hi)

\* len(text.split()): an atom that follows an atom that is not whitespace
\* continues its last word.
WordCount(text) ==
    SumRange([n \in 1..Len(text) |->
                 IF text[n] \in Whitespace THEN 0
                 ELSE IF n > 1 /\ text[n - 1] \notin Whitespace
                      THEN Words(text[n]) - 1
                      ELSE Words(text[n])],
             1, Len(text))

\* A count of the lines of the report: len(report_content.splitlines()).
report_word_count_CountsLines(text) ==
    Cardinality({i \in 1..Len(text) : text[i] = "\n"})

\* "word_count": len(report_content.split()), line 177
report_word_count(text) == WordCount(text)

\* The concatenation of seqs[lo..hi].
RECURSIVE ConcatRange(_, _, _)
ConcatRange(seqs, lo, hi) ==
    IF lo > hi THEN <<>>
    ELSE IF lo = hi THEN seqs[lo]
    ELSE LET mid == (lo + hi) \div 2
         IN ConcatRange(seqs, lo, mid) \o ConcatRange(seqs, mid + 1, hi)

Concat(seqs) == ConcatRange(seqs, 1, Len(seqs))

\* f.write on a file opened in text mode with newline=None: every "\n"
\* becomes os.linesep.
TranslateNewlines(text, linesep) ==
    Concat([i \in 1..Len(text) |->
               IF text[i] = "\n" THEN linesep ELSE <<text[i]>>])

\* The utf-8 bytes of one atom; the bytes of an ASCII text are its
\* characters.
utf8_bytes(t) ==
    IF t = nbsp THEN <<"0xC2", "0xA0">>
    ELSE IF t = e_acute THEN <<"0xC3", "0xA9">>
    ELSE <<t>>

\* text.encode('utf-8') raises UnicodeEncodeError on a lone surrogate.
Encodable(text) == \A i \in 1..Len(text) : text[i] # lone_surrogate

utf8_encode(text) == Concat([i \in 1..Len(text) |-> utf8_bytes(text[i])])

\* bytes.decode('utf-8'): a lead byte and the byte after it are one
\* character.
utf8_decode(bytes) ==
    Concat([i \in 1..Len(bytes) |->
               IF i > 1 /\ bytes[i - 1] \in {"0xC2", "0xC3"} THEN <<>>
               ELSE IF bytes[i] = "0xC2" /\ i < Len(bytes) /\ bytes[i + 1] = "0xA0"
                    THEN <<nbsp>>
               ELSE IF bytes[i] = "0xC3" /\ i < Len(bytes) /\ bytes[i + 1] = "0xA9"
                    THEN <<e_acute>>
               ELSE <<bytes[i]>>])

\* f.read() on a file opened in text mode with newline=None: "\r\n" and a
\* single "\r" are read as "\n".
UniversalNewlines(text) ==
    Concat([i \in 1..Len(text) |->
               IF text[i] = "\r" THEN <<"\n">>
               ELSE IF text[i] = "\n" /\ i > 1 /\ text[i - 1] = "\r" THEN <<>>
               ELSE <<text[i]>>])

\* open(report_path, 'r', encoding='utf-8').read()
read_report(bytes) == UniversalNewlines(utf8_decode(bytes))


Queries == {sample_query, blank_query}

\* The report written before the data is collected.
PhaseOrder_ReportBeforeCollect == <<"plan", "report", "collect", "analyze">>

PhaseOrder == <<"plan", "collect", "analyze", "report">>

NoResult == [status |-> "none"]

NoReport == [report_path |-> <<0, 0>>, summary |-> "none"]

NoFile == [writer |-> 0, data |-> "absent"]

NoResponse == [code |-> 0]

VARIABLES
    session_id,      \* orchestrator -> its session id, 0 before __init__
    uuid_next,       \* the next value uuid4 draws (never drawn before)
    session_logger,  \* orchestrator -> self.session_logger (0 is None)
    handlers,        \* logging registry: session logger name -> directory of
                     \* its file handler (0: the logger has no handler)
    dirs,            \* the output directories that exist
    files,           \* <<directory, session id>> -> the report file there
    pc,              \* call -> where the call is
    c_orch,          \* call -> the orchestrator it runs on (self)
    c_query,         \* call -> its query argument
    c_dir,           \* call -> its output_dir argument
    phases,          \* call -> the phases it has run, in order
    raised,          \* call -> the message of the exception a phase raised
    report,          \* call -> what _generate_report returned
    result,          \* call -> the dictionary conduct_research returned
    touched,         \* call -> the report paths it opened for writing
    attr_writes,     \* call -> the orchestrator attributes it assigned
    plan,            \* call -> research_plan, what _analyze_query returned
    created,         \* call -> what it created under its output_dir
    observed,        \* session id -> the statuses callers were shown
    status_calls,    \* number of get_status calls made
    cli_msg,         \* call -> what the CLI told the user about it
    api_response,    \* call -> the answer of POST /research/conduct
    fn_in,           \* the arguments a function is applied to on its own
    fn_plan,         \* what _analyze_query returned for them
    fn_report,       \* what _generate_report returned for them
    fn_file,         \* the report file _generate_report wrote for them
    fn_read,         \* what reading that file back returned
    reports_api,     \* the API's answers to invalid POSTs and to the reports
                     \* endpoints
    health,          \* GET /system/health: the environment, the check, the answer
    fw_orch,         \* a framework ResearchOrchestrator and its execute calls
    mediator,        \* a PolymorphicMediator and its route_request calls
    agent_pool,      \* a PolymorphicAgentPool and one polymorphic_investigate
    validator,       \* a ConfigurationValidator, its cache and the files
    ollama,          \* an OllamaClient and one initialize call
    preprint         \* findings given to _deduplicate_results and its results

orchvars == <<session_id, uuid_next, session_logger>>
fsvars == <<handlers, dirs, files>>
argvars == <<c_orch, c_query, c_dir>>
localvars == <<phases, raised, report, result, touched, attr_writes, plan,
               created>>
callervars == <<observed, status_calls, cli_msg, api_response>>
fnvars == <<fn_in, fn_plan, fn_report, fn_file, fn_read>>
compvars == <<reports_api, health, fw_orch, mediator, agent_pool, validator,
              ollama, preprint>>
vars == <<orchvars, fsvars, pc, argvars, localvars, callervars, fnvars, compvars>>

\* ------------------------------------------------------------------ helpers
\* str(uuid.uuid4())[:8]: 32 random bits; a draw is taken to be fresh.
uuid4 == uuid_next

Sid(c) == session_id[c_orch[c]]

\* A report name that leaves the session id out.
ReportPath_NoSessionId(output_path, sid) == <<output_path, 1>>

\* output_path / f"research_report_{self.session_id}.md"
ReportPath(output_path, sid) == <<output_path, sid>>

PhaseIndex(ph) == CHOOSE i \in 1..Len(PhaseOrder) : PhaseOrder[i] = ph

\* A pipeline that goes on to the next phase after a phase has raised.
AfterPhase_NoShortCircuit(ph, out) ==
    IF PhaseIndex(ph) = Len(PhaseOrder) THEN "return"
    ELSE PhaseOrder[PhaseIndex(ph) + 1]

\* A pipeline in which a phase that raises never hands control back.
AfterPhase_HangOnFailure(ph, out) ==
    IF out = "raise" THEN "hung"
    ELSE IF PhaseIndex(ph) = Len(PhaseOrder) THEN "return"
    ELSE PhaseOrder[PhaseIndex(ph) + 1]

\* The position a call moves to when a phase ends: the next phase in order,
\* the return after the last one, the except clause as soon as one raises.
AfterPhase(ph, out) ==
    IF out = "raise" THEN "except"
    ELSE IF PhaseIndex(ph) = Len(PhaseOrder) THEN "return"
    ELSE PhaseOrder[PhaseIndex(ph) + 1]

ErrorMessage(ph) == <<"error in", ph>>

\* A result whose report_path is the output directory, not the file.
CompletedResult_PathOfDirectory(c) ==
    [session_id |-> Sid(c),
     query |-> c_query[c],
     timestamp |-> "now",
     output_dir |-> c_dir[c],
     summary |-> report[c].summary,
     report_path |-> <<c_dir[c], 0>>,
     status |-> "completed"]

CompletedResult(c) ==
    [session_id |-> Sid(c),
     query |-> c_query[c],
     timestamp |-> "now",
     output_dir |-> c_dir[c],
     summary |-> report[c].summary,
     report_path |-> report[c].report_path,
     status |-> "completed"]

FailedResult(c) ==
    [session_id |-> Sid(c),
     query |-> c_query[c],
     timestamp |-> "now",
     error |-> raised[c],
     status |-> "failed"]

\* --------------------------------------------------------------------- Init
PipelineInit ==
    /\ session_id = [o \in Orchs |-> 0]
    /\ uuid_next = 1
    /\ session_logger = [o \in Orchs |-> 0]
    /\ handlers = [s \in Sids |-> 0]
    /\ dirs = {}
    /\ files = [p \in Dirs \X Sids |-> NoFile]
    /\ pc = [c \in Calls |-> "idle"]
    /\ c_orch = [c \in Calls |-> 0]
    /\ c_query = [c \in Calls |-> ""]
    /\ c_dir = [c \in Calls |-> 0]
    /\ phases = [c \in Calls |-> <<>>]
    /\ raised = [c \in Calls |-> <<>>]
    /\ report = [c \in Calls |-> NoReport]
    /\ result = [c \in Calls |-> NoResult]
    /\ touched = [c \in Calls |-> {}]
    /\ attr_writes = [c \in Calls |-> {}]
    /\ observed = [s \in Sids |-> <<>>]
    /\ status_calls = 0
    /\ cli_msg = [c \in Calls |-> "none"]
    /\ plan = [c \in Calls |-> NoPlan]
    /\ created = [c \in Calls |-> {}]
    /\ api_response = [c \in Calls |-> NoResponse]

NoInput == [query |-> <<>>]

NoMetadata == [status |-> "none"]

NoBytes == [exists |-> FALSE, bytes |-> <<>>]

NotRead == [status |-> "none"]

FnIdle ==
    /\ fn_in = NoInput
    /\ fn_plan = NoPlan
    /\ fn_report = NoMetadata
    /\ fn_file = NoBytes
    /\ fn_read = NotRead

\* The value of a component's variable in the specifications that do not
\* run it.
Unused == [used |-> FALSE]

\* Every component but the named one is not run.
ComponentsUnusedExcept(name) ==
    /\ IF name = "reports_api" THEN TRUE ELSE reports_api = Unused
    /\ IF name = "health" THEN TRUE ELSE health = Unused
    /\ IF name = "fw_orch" THEN TRUE ELSE fw_orch = Unused
    /\ IF name = "mediator" THEN TRUE ELSE mediator = Unused
    /\ IF name = "agent_pool" THEN TRUE ELSE agent_pool = Unused
    /\ IF name = "validator" THEN TRUE ELSE validator = Unused
    /\ IF name = "ollama" THEN TRUE ELSE ollama = Unused
    /\ IF name = "preprint" THEN TRUE ELSE preprint = Unused

Init == PipelineInit /\ FnIdle /\ ComponentsUnusedExcept("none")

\* ------------------------------------------------------------------ actions
\* ResearchOrchestrator.__init__
Construct(o) ==
    /\ session_id[o] = 0
    /\ o > 1 => session_id[o - 1] # 0
    /\ session_id' = [session_id EXCEPT ![o] = uuid4]
    /\ uuid_next' = uuid_next + 1
    /\ session_logger' = [session_logger EXCEPT ![o] = 0]
    /\ UNCHANGED <<fsvars, pc, argvars, localvars, callervars, fnvars, compvars>>

\* A call of conduct_research(query, output_dir) is entered on orchestrator o.
Enter(c, o, q, d) ==
    /\ pc[c] = "idle"
    /\ c > 1 => pc[c - 1] # "idle"
    /\ session_id[o] # 0
    /\ pc' = [pc EXCEPT ![c] = "setup"]
    /\ c_orch' = [c_orch EXCEPT ![c] = o]
    /\ c_query' = [c_query EXCEPT ![c] = q]
    /\ c_dir' = [c_dir EXCEPT ![c] = d]
    /\ UNCHANGED <<orchvars, fsvars, localvars, callervars, fnvars, compvars>>

conduct_research(c) ==
    \E o \in Orchs, q \in Queries, d \in Dirs : Enter(c, o, q, d)

run_pipeline(c) ==
    \E o \in Orchs, d \in Dirs : Enter(c, o, sample_query, d)

\* Lines 54-58: create_session_logger, the assignment of self.session_logger
\* and output_path.mkdir(parents=True, exist_ok=True), all before the try.
\* A logger without handlers gets a file handler under output_dir/logs
\* (which creates output_dir); a logger that has one is returned as it is.
open_session(c) ==
    /\ pc[c] = "setup"
    /\ LET o == c_orch[c]
           sid == Sid(c)
           d == c_dir[c]
       IN \E out \in {"ok", "logs_mkdir_error", "log_open_error", "mkdir_error"} :
            /\ out \in {"logs_mkdir_error", "log_open_error"} => handlers[sid] = 0
            /\ out = "mkdir_error" => handlers[sid] # 0 /\ d \notin dirs
            /\ handlers' = IF out = "ok" /\ handlers[sid] = 0
                           THEN [handlers EXCEPT ![sid] = d]
                           ELSE handlers
            /\ dirs' = IF out \in {"ok", "log_open_error"}
                       THEN dirs \cup {d}
                       ELSE dirs
            /\ session_logger' =
                   IF out \in {"ok", "mkdir_error"}
                   THEN [session_logger EXCEPT ![o] = sid]
                   ELSE session_logger
            /\ attr_writes' =
                   IF out \in {"ok", "mkdir_error"}
                   THEN [attr_writes EXCEPT ![c] = @ \cup {<<o, "session_logger">>}]
                   ELSE attr_writes
            /\ created' =
                   [created EXCEPT ![c] =
                       (IF d \in dirs' \ dirs THEN {"output_dir"} ELSE {})
                       \cup (IF handlers'[sid] # handlers[sid]
                             THEN {"log_file"} ELSE {})]
            /\ pc' = [pc EXCEPT ![c] = IF out = "ok" THEN PhaseOrder[1]
                                       ELSE "raised"]
    /\ UNCHANGED <<session_id, uuid_next, files, argvars, phases, raised,
                   report, result, touched, plan, callervars, fnvars, compvars>>

\* One of the phases without a side effect runs and returns or raises.
RunPhase(c, ph) ==
    /\ pc[c] = ph
    /\ \E out \in {"ok", "raise"} :
         /\ phases' = [phases EXCEPT ![c] = Append(@, ph)]
         /\ raised' = IF out = "raise"
                      THEN [raised EXCEPT ![c] = ErrorMessage(ph)]
                      ELSE raised
         /\ pc' = [pc EXCEPT ![c] = AfterPhase(ph, out)]
    /\ UNCHANGED <<orchvars, fsvars, argvars, report, result, touched,
                   attr_writes, created, callervars, fnvars, compvars>>

\* Phase 1: research_plan is assigned when _analyze_query returns.
analyze_query(c) ==
    /\ RunPhase(c, "plan")
    /\ plan' = IF raised'[c] # <<>> THEN plan
               ELSE [plan EXCEPT ![c] =
                        analyze_query_plan(Sid(c), Chars(c_query[c]))]

collect_data(c) == RunPhase(c, "collect") /\ UNCHANGED plan

analyze_data(c) == RunPhase(c, "analyze") /\ UNCHANGED plan

\* _generate_report up to open(report_path, 'w'): the file is created or
\* truncated, or open raises.
generate_report(c) ==
    /\ pc[c] = "report"
    /\ LET path == ReportPath(c_dir[c], Sid(c))
       IN \E out \in {"ok", "raise"} :
            /\ phases' = [phases EXCEPT ![c] = Append(@, "report")]
            /\ IF out = "ok"
               THEN /\ files' = [files EXCEPT ![path] =
                                    [writer |-> c, data |-> "empty"]]
                    /\ touched' = [touched EXCEPT ![c] = @ \cup {path}]
                    /\ created' = IF files[path].data = "absent"
                                  THEN [created EXCEPT ![c] =
                                           @ \cup {"report_file"}]
                                  ELSE created
                    /\ pc' = [pc EXCEPT ![c] = "write"]
                    /\ UNCHANGED raised
               ELSE /\ raised' = [raised EXCEPT ![c] = ErrorMessage("report")]
                    /\ pc' = [pc EXCEPT ![c] = AfterPhase("report", "raise")]
                    /\ UNCHANGED <<files, touched, created>>
    /\ UNCHANGED <<orchvars, handlers, dirs, argvars, report, result,
                   attr_writes, plan, callervars, fnvars, compvars>>

\* f.write(report_content) and the close at the end of the with block.  The
\* content lands at offset 0 of whatever the file holds by now; a failure
\* leaves what was flushed before it.
write_report(c) ==
    /\ pc[c] = "write"
    /\ LET path == ReportPath(c_dir[c], Sid(c))
           other == files[path].writer # c /\ files[path].data # "empty"
       IN \E out \in {"ok", "raise"} :
            IF out = "ok"
            THEN /\ \E dt \in {"full", "mixed"} :
                      /\ dt = "mixed" => other
                      /\ files' = [files EXCEPT ![path] =
                                      [writer |-> c, data |-> dt]]
                 /\ report' = [report EXCEPT ![c] =
                                  [report_path |-> path,
                                   summary |-> "Research report generated successfully"]]
                 /\ pc' = [pc EXCEPT ![c] = AfterPhase("report", "ok")]
                 /\ UNCHANGED raised
            ELSE /\ \E dt \in {"empty", "partial"} :
                      files' = [files EXCEPT ![path] =
                                   IF dt = "empty" THEN @
                                   ELSE [writer |-> c, data |-> "partial"]]
                 /\ raised' = [raised EXCEPT ![c] = ErrorMessage("report")]
                 /\ pc' = [pc EXCEPT ![c] = AfterPhase("report", "raise")]
                 /\ UNCHANGED report
    /\ UNCHANGED <<orchvars, handlers, dirs, argvars, phases, result,
                   touched, attr_writes, plan, created, callervars, fnvars, compvars>>

\* Lines 77-89: the result dictionary of a call whose four phases returned.
return_completed(c) ==
    /\ pc[c] = "return"
    /\ result' = [result EXCEPT ![c] = CompletedResult(c)]
    /\ observed' = [observed EXCEPT ![Sid(c)] = Append(@, "completed")]
    /\ pc' = [pc EXCEPT ![c] = "done"]
    /\ UNCHANGED <<orchvars, fsvars, argvars, phases, raised, report,
                   touched, attr_writes, plan, created, status_calls,
                   cli_msg, api_response, fnvars, compvars>>

\* Lines 91-99: except Exception.
return_failed(c) ==
    /\ pc[c] = "except"
    /\ result' = [result EXCEPT ![c] = FailedResult(c)]
    /\ observed' = [observed EXCEPT ![Sid(c)] = Append(@, "failed")]
    /\ pc' = [pc EXCEPT ![c] = "done"]
    /\ UNCHANGED <<orchvars, fsvars, argvars, phases, raised, report,
                   touched, attr_writes, plan, created, status_calls,
                   cli_msg, api_response, fnvars, compvars>>

\* ResearchOrchestrator.get_status
get_status(o) ==
    /\ session_id[o] # 0
    /\ status_calls < MaxStatus
    /\ status_calls' = status_calls + 1
    /\ observed' = [observed EXCEPT ![session_id[o]] = Append(@, "ready")]
    /\ UNCHANGED <<orchvars, fsvars, pc, argvars, localvars, cli_msg,
                   api_response, fnvars, compvars>>

\* What the CLI prints once the awaited conduct_research is over.
CliMessage(returned) == IF returned THEN "completed" ELSE "failed"

\* run_research_mode / run_interactive_mode after the await: the success
\* message when conduct_research returned, the failure message when it raised.
cli_report(c) ==
    /\ pc[c] \in {"done", "raised"}
    /\ cli_msg[c] = "none"
    /\ api_response[c] = NoResponse
    /\ cli_msg' = [cli_msg EXCEPT ![c] = CliMessage(pc[c] = "done")]
    /\ UNCHANGED <<orchvars, fsvars, pc, argvars, localvars, observed,
                   status_calls, api_response, fnvars, compvars>>

\* research_response_model, lines 86-94
ResponseFields ==
    {"session_id", "query", "status", "timestamp", "summary", "report_path",
     "output_dir"}

\* marshal_with(research_response_model): the fields of the model, null for
\* a key the dictionary lacks; keys outside the model are dropped.
Marshal(r) ==
    [f \in ResponseFields |-> IF f \in DOMAIN r THEN r[f] ELSE "null"]

\* ConductResearch.post after run_until_complete: the marshalled dictionary
\* when conduct_research returned, InternalServerError when it raised.
PostResponse(returned, r) ==
    IF returned
    THEN [code |-> 200, body |-> Marshal(r)]
    ELSE [code |-> 500, message |-> "Research failed"]

\* The API answers the request that made call c.
api_respond(c) ==
    /\ pc[c] \in {"done", "raised"}
    /\ api_response[c] = NoResponse
    /\ cli_msg[c] = "none"
    /\ api_response' = [api_response EXCEPT ![c] =
                            PostResponse(pc[c] = "done", result[c])]
    /\ UNCHANGED <<orchvars, fsvars, pc, argvars, localvars, observed,
                   status_calls, cli_msg, fnvars, compvars>>

Next ==
    \/ \E o \in Orchs : Construct(o)
    \/ \E c \in Calls : conduct_research(c)
    \/ \E c \in Calls : run_pipeline(c)
    \/ \E c \in Calls : open_session(c)
    \/ \E c \in Calls : analyze_query(c)
    \/ \E c \in Calls : collect_data(c)
    \/ \E c \in Calls : analyze_data(c)
    \/ \E c \in Calls : generate_report(c)
    \/ \E c \in Calls : write_report(c)
    \/ \E c \in Calls : return_completed(c)
    \/ \E c \in Calls : return_failed(c)
    \/ \E o \in Orchs : get_status(o)
    \/ \E c \in Calls : cli_report(c)
    \/ \E c \in Calls : api_respond(c)

Spec == Init /\ [][Next]_vars

\* The steps of a call that has been entered.  None of them waits for
\* anything: the phases are coroutines without a suspension point.
CallStep(c) ==
    \/ open_session(c)
    \/ analyze_query(c)
    \/ collect_data(c)
    \/ analyze_data(c)
    \/ generate_report(c)
    \/ write_report(c)
    \/ return_completed(c)
    \/ return_failed(c)

\* The pipeline without its observers (status queries, the callers'
\* messages), which change no call.
PipelineNext ==
    \/ \E o \in Orchs : Construct(o)
    \/ \E c \in Calls : conduct_research(c)
    \/ \E c \in Calls : run_pipeline(c)
    \/ \E c \in Calls : CallStep(c)

FairSpec ==
    /\ Init
    /\ [][PipelineNext]_vars
    /\ \A c \in Calls : WF_vars(CallStep(c))

\* ------------------------------------------------ the functions on their own
\* _analyze_query and _generate_report applied to arguments drawn from
\* bounded sets, and the report file read back.

MaxFrags == 2

\* The pieces the queries are made of.
Fragments ==
    { <<"T", "h", "e", " ", "M", "e", "a", "n", "i", "n", "g", " ", "O", "f", " ">>,
      <<"l", "i", "f", "e">>,
      <<"H", "i", "s", "t", "o", "r", "y">>,
      <<"r", "e", "s", "e", "a", "r", "c", "h">>,
      <<"t", "e", "c", "h">>,
      <<" ", "p", "a", "s", "t", " ">>,
      <<"E", "t", "h", "i", "c", "s">>,
      <<"\r", "\n">>,
      <<nbsp>>,
      <<e_acute>>,
      <<lone_surrogate>>,
      <<"?">> }

\* The concatenations of at most n fragments.
RECURSIVE FragQueries(_)
FragQueries(n) ==
    IF n = 0 THEN {<<>>}
    ELSE LET shorter == FragQueries(n - 1)
         IN shorter \cup {q \o f : q \in shorter, f \in Fragments}

QueryInputs ==
    FragQueries(MaxFrags)
        \cup {sample_query_chars, featured_query_chars, Chars(blank_query)}

\* The analysis _analyze_data returns, lines 141-151.
pipeline_analysis ==
    [key_findings |->
        <<"Multiple philosophical perspectives exist on this topic",
          "Historical context provides important framework",
          "Modern interpretations vary significantly",
          "Practical applications are diverse">>,
     themes |-> <<"philosophy", "meaning", "purpose", "existence">>,
     confidence_score |-> "0.78",
     analysis_summary |->
        "Comprehensive analysis completed with high confidence"]

\* The analyses _generate_report is applied to: the pipeline's, one with
\* other findings and the same confidence, one with another confidence,
\* and one without the optional keys.
Analyses ==
    { pipeline_analysis,
      [key_findings |-> <<"Adoption doubled">>,
       themes |-> <<"technology">>,
       confidence_score |-> "0.78",
       analysis_summary |-> "Short analysis"],
      [key_findings |-> <<"Adoption doubled">>,
       themes |-> <<"technology", "purpose">>,
       confidence_score |-> "0.5",
       analysis_summary |-> "Short analysis"],
      [key_findings |-> <<>>] }

\* str(uuid.uuid4())[:8]
SessionIdTexts == {"e44b6c3b", "0351cbf4"}

\* os.linesep
LineSeps == { <<"\n">>, <<"\r", "\n">> }

FnInit ==
    /\ PipelineInit
    /\ fn_in \in [query : QueryInputs, analysis : Analyses,
                  session_id : SessionIdTexts, linesep : LineSeps]
    /\ fn_plan = NoPlan
    /\ fn_report = NoMetadata
    /\ fn_file = NoBytes
    /\ fn_read = NotRead
    /\ ComponentsUnusedExcept("none")

\* _analyze_query(query), lines 101-115
apply_analyze_query ==
    /\ fn_plan = NoPlan
    /\ fn_plan' = analyze_query_plan(fn_in.session_id, fn_in.query)
    /\ UNCHANGED <<orchvars, fsvars, pc, argvars, localvars, callervars, compvars,
                   fn_in, fn_report, fn_file, fn_read>>

\* _generate_report(query, analysis, output_path), lines 154-179: open
\* creates the file, write encodes the whole text or raises and writes
\* nothing.
apply_generate_report ==
    /\ fn_report = NoMetadata
    /\ LET text == report_content(fn_in.session_id, fn_in.query,
                                  fn_in.analysis)
       IN IF Encodable(text)
          THEN /\ fn_file' = [exists |-> TRUE,
                              bytes |-> utf8_encode(
                                  TranslateNewlines(text, fn_in.linesep))]
               /\ fn_report' = [status |-> "returned",
                                summary |-> "Research report generated successfully",
                                word_count |-> report_word_count(text),
                                sections |-> 6]
          ELSE /\ fn_file' = [exists |-> TRUE, bytes |-> <<>>]
               /\ fn_report' = [status |-> "raised"]
    /\ UNCHANGED <<orchvars, fsvars, pc, argvars, localvars, callervars, compvars,
                   fn_in, fn_plan, fn_read>>

\* The report file read back, as GET /reports/<id> reads it.
apply_read_report ==
    /\ fn_file.exists
    /\ fn_read = NotRead
    /\ fn_read' = [status |-> "read", content |-> read_report(fn_file.bytes)]
    /\ UNCHANGED <<orchvars, fsvars, pc, argvars, localvars, callervars, compvars,
                   fn_in, fn_plan, fn_report, fn_file>>

FnNext ==
    \/ apply_analyze_query
    \/ apply_generate_report
    \/ apply_read_report

FnSpec == FnInit /\ [][FnNext]_vars

\* ------------------------------------------------------ the reports endpoints
\* The API process: one module-level orchestrator, POST /research/conduct,
\* GET /reports/list and GET /reports/<report_id>.

\* Path("research"), the directory the reports endpoints look in
reports_dir == 1

\* data.get('output_dir', 'research/api_output')
default_output_dir == 2

NotAsked == [asked |-> FALSE, report_id |-> 0, code |-> 0, filenames |-> {},
             completed |-> {}]

ApiIdle == [invalid_post |-> NoResponse, listed |-> NotAsked, got |-> NotAsked]

ApiInit ==
    /\ PipelineInit
    /\ FnIdle
    /\ ComponentsUnusedExcept("reports_api")
    /\ reports_api = ApiIdle

\* initialize_app: the module-level orchestrator
initialize_app == Construct(1)

\* ConductResearch.post with a body that has a query
api_post(c) ==
    \E q \in Queries, output_dir \in Dirs \cup {0} :
        Enter(c, 1, q,
              IF output_dir = 0 THEN default_output_dir ELSE output_dir)

\* The POSTs answered with a response whose session completed.
CompletedPosts ==
    {c \in Calls : api_response[c] # NoResponse /\ result[c].status = "completed"}

\* ConductResearch.post, lines 111-138, with a body get_json() returns None
\* or {} for, or one without 'query': BadRequest is raised inside the try
\* and caught by its except Exception.
PostInvalid(body) ==
    LET raised_in_try == [code |-> 400, message |-> "Query is required"]
    IN [code |-> 500,
        message |-> <<"Research failed: ", raised_in_try.code,
                      raised_in_try.message>>]

api_post_invalid ==
    /\ reports_api.invalid_post = NoResponse
    /\ \E body \in {"missing", "empty", "no_query"} :
         reports_api' = [reports_api EXCEPT !.invalid_post = PostInvalid(body)]
    /\ UNCHANGED <<orchvars, fsvars, pc, argvars, localvars, callervars, fnvars,
                   health, fw_orch, mediator, agent_pool, validator, ollama,
                   preprint>>

\* reports_dir.glob("research_report_*.md"): the session ids of the report
\* files directly in directory d
ReportsIn(d) ==
    IF d \in dirs
    THEN {sid \in Sids : files[<<d, sid>>].data # "absent"}
    ELSE {}

\* ListReports.get, lines 219-245
list_reports ==
    /\ ~reports_api.listed.asked
    /\ reports_api' =
           [reports_api EXCEPT !.listed =
               [NotAsked EXCEPT !.asked = TRUE,
                                !.code = 200,
                                !.filenames = ReportsIn(reports_dir),
                                !.completed = CompletedPosts]]
    /\ UNCHANGED <<orchvars, fsvars, pc, argvars, localvars, callervars, fnvars,
                   health, fw_orch, mediator, agent_pool, validator, ollama,
                   preprint>>

\* GetReport.get, lines 247-271
get_report(report_id) ==
    /\ ~reports_api.got.asked
    /\ reports_api' =
           [reports_api EXCEPT !.got =
               [NotAsked EXCEPT !.asked = TRUE,
                                !.report_id = report_id,
                                !.code = IF report_id \in ReportsIn(reports_dir)
                                         THEN 200 ELSE 404,
                                !.completed = CompletedPosts]]
    /\ UNCHANGED <<orchvars, fsvars, pc, argvars, localvars, callervars, fnvars,
                   health, fw_orch, mediator, agent_pool, validator, ollama,
                   preprint>>

ApiNext ==
    \/ initialize_app
    \/ \E c \in Calls : api_post(c)
    \/ \E c \in Calls : CallStep(c)
    \/ \E c \in Calls : api_respond(c)
    \/ api_post_invalid
    \/ list_reports
    \/ \E report_id \in Sids : get_report(report_id)

ApiSpec == ApiInit /\ [][ApiNext]_vars

\* -------------------------------------------------------- GET /system/health
\* check_environment on an environment drawn from the possible ones, and
\* SystemHealth.get.

Environments ==
    [venv_active : BOOLEAN, env_file_exists : BOOLEAN,
     config_file_exists : BOOLEAN, database : {"absent", "invalid", "valid"},
     missing_dirs : {{}, {"data"}}, api_key_set : BOOLEAN]

\* check_environment, lines 12-112
check_environment(env) ==
    LET db_exists == env.database # "absent"
        db_valid == env.database = "valid"
        directories == env.missing_dirs = {}
        api_keys_configured == env.env_file_exists /\ env.api_key_set
        critical_checks == <<env.venv_active, env.config_file_exists, directories>>
        all_critical == \A i \in 1..Len(critical_checks) : critical_checks[i]
    IN [valid |-> all_critical,
        message |->
            IF ~all_critical THEN "Critical environment checks failed"
            ELSE IF ~env.env_file_exists
                 THEN "Environment file missing - some features may not work"
            ELSE IF ~api_keys_configured
                 THEN "API keys not configured - AI features will not work"
            ELSE IF ~(db_exists /\ db_valid)
                 THEN "Database not initialized - run database setup"
            ELSE "Environment is properly configured",
        checks |-> [virtual_env |-> env.venv_active,
                    env_file |-> env.env_file_exists,
                    config_file |-> env.config_file_exists,
                    database_exists |-> db_exists,
                    database_valid |-> db_valid,
                    directories |-> directories,
                    missing_directories |-> env.missing_dirs,
                    api_keys |-> api_keys_configured]]

NoCheck == [valid |-> FALSE, message |-> "none"]

HealthInit ==
    /\ PipelineInit
    /\ FnIdle
    /\ ComponentsUnusedExcept("health")
    /\ health \in [env : Environments, orchestrator_ready : BOOLEAN,
                   env_status : {NoCheck}, response : {NoResponse}]

\* check_environment called on its own (main.py)
apply_check_environment ==
    /\ health.env_status = NoCheck
    /\ health' = [health EXCEPT !.env_status = check_environment(health.env)]
    /\ UNCHANGED <<orchvars, fsvars, pc, argvars, localvars, callervars, fnvars,
                   reports_api, fw_orch, mediator, agent_pool, validator,
                   ollama, preprint>>

\* SystemHealth.get, lines 160-198: the body of the try raises when the
\* module-level orchestrator is None (AttributeError) and when env_status
\* has no key 'overall_status' (KeyError); its except answers 'unhealthy'.
\* The answer is marshalled with system_status_model.
HealthResponse(env_status, orchestrator_ready) ==
    IF orchestrator_ready /\ "overall_status" \in DOMAIN env_status
    THEN [code |-> 200,
          status |-> IF env_status.overall_status THEN "healthy" ELSE "unhealthy",
          components |-> "environment, orchestrator, api",
          version |-> "1.0.0"]
    ELSE [code |-> 200,
          status |-> "unhealthy",
          components |-> "null",
          version |-> "1.0.0"]

system_health_get ==
    /\ health.response = NoResponse
    /\ health' = [health EXCEPT !.response =
                     HealthResponse(check_environment(health.env),
                                    health.orchestrator_ready)]
    /\ UNCHANGED <<orchvars, fsvars, pc, argvars, localvars, callervars, fnvars,
                   reports_api, fw_orch, mediator, agent_pool, validator,
                   ollama, preprint>>

HealthNext == apply_check_environment \/ system_health_get

HealthSpec == HealthInit /\ [][HealthNext]_vars

\* ------------------------------------------- framework ResearchOrchestrator
\* polymorphic_framework.ResearchOrchestrator: execute calls on one
\* orchestrator, each suspended at the await of its handler until the
\* handler returns, raises an Exception or the task is cancelled
\* (CancelledError is not an Exception).

MaxExecutes == 3

Executes == 1..MaxExecutes

FwInit ==
    /\ PipelineInit
    /\ FnIdle
    /\ ComponentsUnusedExcept("fw_orch")
    /\ fw_orch = [state |-> "idle",
                  call |-> [k \in Executes |-> "not called"],
                  ended |-> <<>>]

\* execute, lines 110-113, up to the await of the handler
execute_begin(k) ==
    /\ fw_orch.call[k] = "not called"
    /\ fw_orch' = [fw_orch EXCEPT !.state = "processing",
                                  !.call[k] = "awaiting"]
    /\ UNCHANGED <<orchvars, fsvars, pc, argvars, localvars, callervars, fnvars,
                   reports_api, health, mediator, agent_pool, validator,
                   ollama, preprint>>

\* self.state after the handler ended, lines 130-135
StateAfter(state, outcome) ==
    IF outcome = "returned" THEN "completed"
    ELSE IF outcome = "raised" THEN "error"
    ELSE state

\* execute from the await on, lines 117-135
execute_end(k, outcome) ==
    /\ fw_orch.call[k] = "awaiting"
    /\ fw_orch' = [fw_orch EXCEPT !.state = StateAfter(@, outcome),
                                  !.call[k] = outcome,
                                  !.ended = Append(@, outcome)]
    /\ UNCHANGED <<orchvars, fsvars, pc, argvars, localvars, callervars, fnvars,
                   reports_api, health, mediator, agent_pool, validator,
                   ollama, preprint>>

FwNext ==
    \/ \E k \in Executes : execute_begin(k)
    \/ \E k \in Executes, outcome \in {"returned", "raised", "cancelled"} :
           execute_end(k, outcome)

FwSpec == FwInit /\ [][FwNext]_vars

\* ------------------------------------------------------ PolymorphicMediator
\* polymorphic_framework.PolymorphicMediator: a registry of components in
\* registration order and route_request calls, each suspended at the await
\* of the selected component's execute.

MaxRoutes == 2

Routes == 1..MaxRoutes

ComponentTypes == {"analysis", "synthesis", "orchestrator"}

RequestTypes == {"analysis", "synthesis", "collaboration"}

ErrorTexts == {"", "model unavailable"}

\* can_handle of a component: the orchestrator handles every request type
\* (line 139), any other component its own
can_handle(component, request_type) ==
    component = "orchestrator" \/ component = request_type

NotRouted == [at |-> "not called", request_type |-> "", selected |-> "",
              appended |-> <<>>]

MedInit ==
    /\ PipelineInit
    /\ FnIdle
    /\ ComponentsUnusedExcept("mediator")
    /\ mediator = [components |-> <<>>,
                   execution_history |-> <<>>,
                   register_raised |-> FALSE,
                   route |-> [k \in Routes |-> NotRouted]]

Registered == {mediator.components[i] : i \in 1..Len(mediator.components)}

\* register_component, lines 66-70: the component is stored, then
\* self.logger, which the mediator never sets, raises AttributeError
register_component(component) ==
    /\ mediator' = [mediator EXCEPT
           !.components = IF component \in Registered THEN @
                          ELSE Append(@, component),
           !.register_raised = TRUE]
    /\ UNCHANGED <<orchvars, fsvars, pc, argvars, localvars, callervars, fnvars,
                   reports_api, health, fw_orch, agent_pool, validator,
                   ollama, preprint>>

\* a component is idle unless a route_request call awaits its execute
Busy(component) ==
    \E k \in Routes : /\ mediator.route[k].at = "awaiting"
                      /\ mediator.route[k].selected = component

\* min() over equal load scores returns the first of the list
First(components, S) ==
    components[CHOOSE i \in 1..Len(components) :
                   /\ components[i] \in S
                   /\ \A j \in 1..(i - 1) : components[j] \notin S]

\* LoadBalancer.select_optimal, lines 35-40
select_optimal(suitable) ==
    LET available_components == {c \in suitable : ~Busy(c)}
    IN IF available_components = {}
       THEN First(mediator.components, suitable)
       ELSE First(mediator.components, available_components)

\* route_request, lines 71-83, up to the await of execute
route_request_begin(k, request_type) ==
    /\ mediator.route[k].at = "not called"
    /\ LET suitable_components ==
               {c \in Registered : can_handle(c, request_type)}
       IN mediator' = [mediator EXCEPT !.route[k] =
              IF suitable_components = {}
              THEN [@ EXCEPT !.at = "NameError",
                             !.request_type = request_type]
              ELSE [@ EXCEPT !.at = "awaiting",
                             !.request_type = request_type,
                             !.selected =
                                 select_optimal(suitable_components)]]
    /\ UNCHANGED <<orchvars, fsvars, pc, argvars, localvars, callervars, fnvars,
                   reports_api, health, fw_orch, agent_pool, validator,
                   ollama, preprint>>

Entries_NoFailureEntry(selected, outcome, text) ==
    IF outcome = "returned"
    THEN <<[component_type |-> selected, success |-> TRUE]>>
    ELSE <<>>

\* the entries route_request appends when execute ended, lines 84-102
Entries(selected, outcome, text) ==
    IF outcome = "returned"
    THEN <<[component_type |-> selected, success |-> TRUE]>>
    ELSE IF outcome = "raised"
    THEN <<[component_type |-> selected, success |-> FALSE, error |-> text]>>
    ELSE <<>>

\* route_request from the await on, lines 83-102
route_request_end(k, outcome, text) ==
    /\ mediator.route[k].at = "awaiting"
    /\ outcome = "raised" \/ text = ""
    /\ LET entries == Entries(mediator.route[k].selected, outcome, text)
       IN mediator' = [mediator EXCEPT
              !.execution_history = @ \o entries,
              !.route[k] = [@ EXCEPT !.at = outcome,
                                     !.appended = entries]]
    /\ UNCHANGED <<orchvars, fsvars, pc, argvars, localvars, callervars, fnvars,
                   reports_api, health, fw_orch, agent_pool, validator,
                   ollama, preprint>>

MedNext ==
    \/ \E component \in ComponentTypes : register_component(component)
    \/ \E k \in Routes, request_type \in RequestTypes :
           route_request_begin(k, request_type)
    \/ \E k \in Routes, outcome \in {"returned", "raised", "cancelled"},
          text \in ErrorTexts :
           route_request_end(k, outcome, text)

MedSpec == MedInit /\ [][MedNext]_vars

\* ----------------------------------------------------- PolymorphicAgentPool
\* breakthrough_integration.PolymorphicAgentPool.polymorphic_investigate

MaxAgentTypes == 3

AgentTypes == {"literature", "experiment", "critic"}

AgentTypeLists ==
    UNION {[1..n -> AgentTypes] : n \in 0..MaxAgentTypes}

NotInvestigated == [called |-> FALSE, agent_types |-> <<>>, agent_results |-> {}]

PoolInit ==
    /\ PipelineInit
    /\ FnIdle
    /\ ComponentsUnusedExcept("agent_pool")
    /\ agent_pool \in [agents : SUBSET AgentTypes,
                       investigation : {NotInvestigated}]

\* what agent.execute gives to gather(return_exceptions=True): the
\* agent's result, or the exception it raised
AgentResult(agent_type, raises) ==
    [agent |-> agent_type, exception |-> agent_type \in raises]

\* investigation_tasks gathered, lines 57-68: one result per requested
\* type that is registered, in request order
GatherResults(agents, agent_types, raises) ==
    LET registered == SelectSeq(agent_types, LAMBDA t : t \in agents)
    IN [i \in 1..Len(registered) |-> AgentResult(registered[i], raises)]

Min(a, b) == IF a < b THEN a ELSE b

\* dict(zip(agent_types, results)), line 71, as a set of (key, value)
\* pairs: zip stops at the shorter list, a later pair replaces an earlier
\* one with the same key
DictZip(keys, values) ==
    LET n == Min(Len(keys), Len(values))
    IN {<<keys[i], values[i]>> :
            i \in {j \in 1..n : \A l \in (j + 1)..n : keys[l] # keys[j]}}

\* polymorphic_investigate, lines 55-74
polymorphic_investigate(agent_types, raises) ==
    /\ agent_pool' = [agent_pool EXCEPT !.investigation =
           [called |-> TRUE,
            agent_types |-> agent_types,
            agent_results |->
                DictZip(agent_types,
                        GatherResults(agent_pool.agents, agent_types,
                                      raises))]]
    /\ UNCHANGED <<orchvars, fsvars, pc, argvars, localvars, callervars, fnvars,
                   reports_api, health, fw_orch, mediator, validator,
                   ollama, preprint>>

PoolNext ==
    \E agent_types \in AgentTypeLists, raises \in SUBSET AgentTypes :
        polymorphic_investigate(agent_types, raises)

PoolSpec == PoolInit /\ [][PoolNext]_vars

\* ------------------------------------------------ PolymorphicPrePrintServer
\* breakthrough_integration.PolymorphicPrePrintServer._deduplicate_results;
\* topics and methodologies are texts, written as sequences of characters

MaxFindings == 3

Topics == {<<"a">>, <<"a", "_", "b">>}

Methodologies == {<<"b">>, <<"c">>, <<"b", "_", "c">>}

\* ResearchFindings, lines 6-13; confidence_score tells apart two findings
\* of one topic and methodology
Findings ==
    [topic : Topics, methodology : Methodologies, confidence_score : {1, 2}]

FindingLists == UNION {[1..n -> Findings] : n \in 0..MaxFindings}

\* f"{result.topic}_{result.methodology}", line 45
result_id(finding) == finding.topic \o <<"_">> \o finding.methodology

\* the loop of lines 44-48 from position i on
RECURSIVE DeduplicateFrom(_, _, _, _)
DeduplicateFrom(results, i, seen, unique_results) ==
    IF i > Len(results) THEN unique_results
    ELSE IF result_id(results[i]) \notin seen
    THEN DeduplicateFrom(results, i + 1, seen \cup {result_id(results[i])},
                         Append(unique_results, results[i]))
    ELSE DeduplicateFrom(results, i + 1, seen, unique_results)

\* _deduplicate_results, lines 40-49
deduplicate_results(results) == DeduplicateFrom(results, 1, {}, <<>>)

PrePrintInit ==
    /\ PipelineInit
    /\ FnIdle
    /\ ComponentsUnusedExcept("preprint")
    /\ preprint \in [results : FindingLists, applied : {FALSE},
                     unique_results : {<<>>}, again : {<<>>}]

apply_deduplicate_results ==
    /\ ~preprint.applied
    /\ preprint' = [preprint EXCEPT
           !.applied = TRUE,
           !.unique_results = deduplicate_results(preprint.results),
           !.again = deduplicate_results(
                         deduplicate_results(preprint.results))]
    /\ UNCHANGED <<orchvars, fsvars, pc, argvars, localvars, callervars, fnvars,
                   reports_api, health, fw_orch, mediator, agent_pool,
                   validator, ollama>>

PrePrintNext == apply_deduplicate_results

PrePrintSpec == PrePrintInit /\ [][PrePrintNext]_vars

\* --------------------------------------------------- ConfigurationValidator
\* config_management.ConfigurationValidator on one configuration file: the
\* file, the validator's cache entry for it and the last call's result.
\* A configuration is a one-key mapping; a file's text is the sequence of
\* tokens yaml.dump writes for it.

WorkerCounts == {2, 4, 8}

Configs == [workers : WorkerCounts]

\* a mapping yaml.dump cannot represent (a value that cannot be reduced)
unrepresentable == [workers |-> 2, lock |-> TRUE]

None == [none |-> TRUE]

NotCached == [cached |-> FALSE]

yaml_dump(config) == <<"workers", ":", config.workers>>

yaml_safe_load(text) == IF text = <<>> THEN None ELSE [workers |-> text[3]]

NoConfigFile == [exists |-> FALSE, text |-> <<>>]

FileWith(text) == [exists |-> TRUE, text |-> text]

BackupTexts == {yaml_dump(c) : c \in Configs}

ValidatorInit ==
    /\ PipelineInit
    /\ FnIdle
    /\ ComponentsUnusedExcept("validator")
    /\ validator \in [file : {NoConfigFile} \cup {FileWith(t) : t \in BackupTexts},
                      config_cache : {NotCached},
                      last : {[op |-> "none", arg |-> None, returned |-> None]}]

ValidatorFrame ==
    UNCHANGED <<orchvars, fsvars, pc, argvars, localvars, callervars, fnvars,
                reports_api, health, fw_orch, mediator, agent_pool,
                ollama, preprint>>

\* dynamic_config_updates, lines 184-229: open(config_path, 'w') empties
\* the file before yaml.dump represents new_config; the cache is written
\* only after the dump
dynamic_config_updates(new_config, can_open) ==
    /\ validator' =
           IF ~can_open
           THEN [validator EXCEPT
                     !.last = [op |-> "dynamic_config_updates", arg |-> new_config,
                               returned |-> FALSE]]
           ELSE IF new_config = unrepresentable
           THEN [validator EXCEPT
                     !.file = FileWith(<<>>),
                     !.last = [op |-> "dynamic_config_updates", arg |-> new_config,
                               returned |-> FALSE]]
           ELSE [validator EXCEPT
                     !.file = FileWith(yaml_dump(new_config)),
                     !.config_cache = new_config,
                     !.last = [op |-> "dynamic_config_updates", arg |-> new_config,
                               returned |-> TRUE]]
    /\ ValidatorFrame

\* get_config, lines 247-272
get_config ==
    /\ validator' =
           IF validator.config_cache # NotCached
           THEN [validator EXCEPT
                     !.last = [op |-> "get_config", arg |-> None,
                               returned |-> validator.config_cache]]
           ELSE IF ~validator.file.exists
           THEN [validator EXCEPT
                     !.last = [op |-> "get_config", arg |-> None, returned |-> None]]
           ELSE LET config_data == yaml_safe_load(validator.file.text)
                IN [validator EXCEPT
                        !.config_cache = config_data,
                        !.last = [op |-> "get_config", arg |-> None,
                                  returned |-> config_data]]
    /\ ValidatorFrame

\* restore_config_backup, lines 303-326: shutil.copy2 copies the content
\* and then the file's metadata; it fails before the copy when the backup
\* is missing, or after it when the metadata cannot be set
restore_config_backup(backup, copy2) ==
    /\ validator' =
           IF copy2 = "no backup"
           THEN [validator EXCEPT
                     !.last = [op |-> "restore_config_backup", arg |-> backup,
                               returned |-> FALSE]]
           ELSE IF copy2 = "copystat fails"
           THEN [validator EXCEPT
                     !.file = FileWith(backup),
                     !.last = [op |-> "restore_config_backup", arg |-> backup,
                               returned |-> FALSE]]
           ELSE [validator EXCEPT
                     !.file = FileWith(backup),
                     !.config_cache = NotCached,
                     !.last = [op |-> "restore_config_backup", arg |-> backup,
                               returned |-> TRUE]]
    /\ ValidatorFrame

ValidatorNext ==
    \/ \E new_config \in Configs \cup {unrepresentable},
          can_open \in BOOLEAN :
           dynamic_config_updates(new_config, can_open)
    \/ get_config
    \/ \E backup \in BackupTexts,
          copy2 \in {"copied", "no backup", "copystat fails"} :
           restore_config_backup(backup, copy2)

ValidatorSpec == ValidatorInit /\ [][ValidatorNext]_vars

\* ------------------------------------------------------------- OllamaClient
\* ai.ollama_client.OllamaClient against an Ollama server that is
\* unreachable, answers /api/tags with an error status, or is up

ServerStates == {"unreachable", "error status", "up"}

ModelNames == {"llama3", "mistral", "phi3"}

OllamaInit ==
    /\ PipelineInit
    /\ FnIdle
    /\ ComponentsUnusedExcept("ollama")
    /\ ollama \in [server : ServerStates,
                   models : SUBSET ModelNames,
                   available_models : {{}},
                   connected : {"not checked"},
                   returned : {"not called"}]

OllamaFrame ==
    UNCHANGED <<orchvars, fsvars, pc, argvars, localvars, callervars, fnvars,
                reports_api, health, fw_orch, mediator, agent_pool,
                validator, preprint>>

\* check_connection, lines 57-70: False on any exception and on a status
\* other than 200
check_connection(server) == IF server = "up" THEN "True" ELSE "False"

\* list_models, lines 72-96: the empty list on any exception
list_models(server, models) == IF server = "up" THEN models ELSE {}

\* initialize, lines 36-55: the result of check_connection is dropped,
\* and neither call raises
initialize ==
    /\ ollama' = [ollama EXCEPT
           !.connected = check_connection(ollama.server),
           !.available_models = list_models(ollama.server, ollama.models),
           !.returned = "True"]
    /\ OllamaFrame

\* the server starts, stops or gets other models
server_changes(server, models) ==
    /\ ollama' = [ollama EXCEPT !.server = server, !.models = models]
    /\ OllamaFrame

OllamaNext ==
    \/ initialize
    \/ \E server \in ServerStates, models \in SUBSET ModelNames :
           server_changes(server, models)

OllamaSpec == OllamaInit /\ [][OllamaNext]_vars

\* ------------------------------------------------------------------- claims
AllPhases == <<"plan", "collect", "analyze", "report">>

IsPrefix(s, t) == Len(s) <= Len(t) /\ \A i \in 1..Len(s) : s[i] = t[i]

Entered(c) == pc[c] # "idle"

Returned(c) == result[c].status # "none"

OwnPath(c) == <<c_dir[c], Sid(c)>>

\* C1: within one conduct_research call the phases run in the order plan,
\* collect, analyze, report, each at most once and none skipped; a completed
\* call has run all four and none raised; once a phase has raised it is the
\* last phase the call ran and the result is failed.
C1_StrictPhaseOrder ==
    \A c \in Calls :
        /\ IsPrefix(phases[c], AllPhases)
        /\ result[c].status = "completed" =>
               phases[c] = AllPhases /\ raised[c] = <<>>
        /\ raised[c] # <<>> =>
               /\ phases[c] # <<>>
               /\ raised[c] = <<"error in", phases[c][Len(phases[c])]>>
               /\ pc[c] \in {"except", "done"}
               /\ result[c].status \in {"none", "failed"}
               /\ pc[c] = "done" => result[c].status = "failed"

\* C1 witness: one call completed after its four phases, another ended
\* failed with collect as the last phase it ran.
C1_Witness ==
    \E c, d \in Calls :
        /\ result[c].status = "completed"
        /\ phases[c] = AllPhases
        /\ result[d].status = "failed"
        /\ phases[d] = <<"plan", "collect">>

\* C2: no two conduct_research calls return the same session_id.
C2_DistinctSessionIds ==
    \A c, d \in Calls :
        c # d /\ Returned(c) /\ Returned(d) =>
            result[c].session_id # result[d].session_id

\* C3: a call that returned status completed opened exactly one report file
\* for writing, the one named by its session id inside its output_dir, the
\* file exists, and the result's report_path is that file's path.
C3_CompletedHasItsReport ==
    \A c \in Calls :
        result[c].status = "completed" =>
            /\ touched[c] = {OwnPath(c)}
            /\ files[OwnPath(c)].data # "absent"
            /\ result[c].session_id = Sid(c)
            /\ result[c].output_dir = c_dir[c]
            /\ result[c].report_path = <<result[c].output_dir, result[c].session_id>>

\* C3 witness: a completed call on the second orchestrator whose report is
\* the file it wrote.
C3_Witness ==
    \E c \in Calls :
        /\ result[c].status = "completed"
        /\ result[c].session_id = 2
        /\ files[result[c].report_path] = [writer |-> c, data |-> "full"]

\* C4: a call whose data-collection phase raised has opened no report file
\* for writing and, once it has returned, its status is failed.
C4_CollectFailureWritesNoReport ==
    \A c \in Calls :
        raised[c] = <<"error in", "collect">> =>
            /\ touched[c] = {}
            /\ \A p \in Dirs \X Sids : files[p].writer # c
            /\ result[c].status # "completed"
            /\ pc[c] = "done" => result[c].status = "failed"

\* C4 witness: a call has returned failed after its collection phase raised.
C4_Witness ==
    \E c \in Calls :
        /\ raised[c] = <<"error in", "collect">>
        /\ pc[c] = "done"
        /\ result[c].status = "failed"

\* C5: a call in which a phase raised returns status failed with the
\* originating error message, and the CLI never reports it as completed.
C5_FailureIsSurfaced ==
    \A c \in Calls :
        raised[c] # <<>> /\ pc[c] = "done" =>
            /\ result[c].status = "failed"
            /\ result[c].error = raised[c]
            /\ cli_msg[c] # "completed"

\* C6: in every state a report file last written by a call holds the full
\* report content: never an empty, truncated or partial one.
C6_AtomicReportWrite ==
    \A c \in Calls :
        \A p \in touched[c] :
            files[p].writer = c => files[p].data = "full"

\* C7: two calls that are in progress at the same time have assigned no
\* common orchestrator attribute.
C7_NoSharedMutableState ==
    \A c, d \in Calls :
        /\ c # d
        /\ pc[c] \notin {"idle", "done", "raised"}
        /\ pc[d] \notin {"idle", "done", "raised"}
        => attr_writes[c] \cap attr_writes[d] = {}

\* C8: two calls with different session ids never open the same report path
\* for writing, and a completed call all of whose fellow calls have other
\* session ids keeps its report file, complete, whatever the others did.
C8_DistinctSessionsDoNotInterfere ==
    \A c \in Calls :
        /\ \A d \in Calls :
               Entered(c) /\ Entered(d) /\ Sid(c) # Sid(d) =>
                   /\ touched[c] \cap touched[d] = {}
                   /\ \A p \in touched[c] : files[p].writer # d
        /\ /\ result[c].status = "completed"
           /\ \A d \in Calls \ {c} : Entered(d) => Sid(d) # Sid(c)
           => files[OwnPath(c)] = [writer |-> c, data |-> "full"]

\* C8 witness: two calls with different session ids used the same
\* output_dir; one completed, the other failed while writing its report.
C8_Witness ==
    \E c, d \in Calls :
        /\ Entered(c) /\ Entered(d)
        /\ Sid(c) # Sid(d)
        /\ c_dir[c] = c_dir[d]
        /\ result[c].status = "completed"
        /\ result[d].status = "failed"
        /\ touched[d] # {}
        /\ files[OwnPath(c)] = [writer |-> c, data |-> "full"]

\* C9: for every session id, once callers have been shown completed or
\* failed, every later status shown for that session id is the same.
C9_StatusOnlyForward ==
    \A s \in Sids :
        \A i, j \in 1..Len(observed[s]) :
            i < j /\ observed[s][i] \in {"completed", "failed"} =>
                observed[s][j] = observed[s][i]

\* C10: there is at most one report file per session id over all output
\* directories, and the report file of a completed call still is the one
\* that call wrote.
C10_OneArtifactPerSession ==
    /\ \A s \in Sids :
           Cardinality({d \in Dirs : files[<<d, s>>].data # "absent"}) <= 1
    /\ \A c \in Calls :
           result[c].status = "completed" => files[OwnPath(c)].writer = c

\* C11: a call with an empty or whitespace-only query runs no phase,
\* computes no plan, writes no report file and does not end completed.
C11_BlankQueryRejected ==
    \A c \in Calls :
        Entered(c) /\ IsBlank(Chars(c_query[c])) =>
            /\ phases[c] = <<>>
            /\ plan[c] = NoPlan
            /\ touched[c] = {}
            /\ result[c].status # "completed"

\* C12: POST /research/conduct answers a call that ended failed, or raised,
\* with a 5xx that carries a message, and answers 200 only for a call that
\* ended completed.
C12_FailureAnsweredWith5xx ==
    \A c \in Calls :
        api_response[c] # NoResponse =>
            /\ result[c].status # "completed" =>
                   /\ api_response[c].code >= 500
                   /\ "message" \in DOMAIN api_response[c]
            /\ api_response[c].code = 200 => result[c].status = "completed"

\* C13: every returned result, completed or failed, has all the fields of
\* the ResultEnvelope, with the session's id and the query passed in.
C13_ResultHasEnvelope ==
    \A c \in Calls :
        Returned(c) =>
            /\ {"session_id", "query", "timestamp", "output_dir", "status",
                "summary", "report_path"} \subseteq DOMAIN result[c]
            /\ result[c].session_id = Sid(c)
            /\ result[c].query = c_query[c]

\* C14: a failed call returns nothing of its plan, data or analysis, and
\* nothing it created under output_dir remains (the code removes nothing,
\* so whatever it created remains).
C14_FailureLeavesNothing ==
    \A c \in Calls :
        result[c].status = "failed" =>
            /\ DOMAIN result[c] \subseteq
                   {"session_id", "query", "timestamp", "status", "error"}
            /\ created[c] = {}

\* C15: _determine_research_type returns the first category, in the order
\* philosophical, technical, historical, one of whose keywords occurs in the
\* query with the letter case ignored, and general exactly when no keyword
\* occurs; the sample query is technical.
C15_FirstMatchingCategory ==
    fn_plan # NoPlan =>
        LET q == fn_in.query
            Occurs(w) ==
                \E i \in 0..(Len(q) - Len(w)) :
                    \A j \in 1..Len(w) : LowerChar(q[i + j]) = w[j]
            Hit(words) == \E k \in 1..Len(words) : Occurs(words[k])
            research_type == fn_plan.research_type
        IN /\ (research_type = "philosophical") <=> Hit(philosophical_words)
           /\ (research_type = "technical") <=>
                  (~Hit(philosophical_words) /\ Hit(technical_words))
           /\ (research_type = "historical") <=>
                  (/\ ~Hit(philosophical_words)
                   /\ ~Hit(technical_words)
                   /\ Hit(historical_words))
           /\ (research_type = "general") <=>
                  (/\ ~Hit(philosophical_words)
                   /\ ~Hit(technical_words)
                   /\ ~Hit(historical_words))
           /\ q = sample_query_chars => research_type = "technical"

\* C15 witness: the sample query has been classified as technical.
C15_Witness ==
    /\ fn_in.query = sample_query_chars
    /\ fn_plan # NoPlan
    /\ fn_plan.research_type = "technical"

\* C16: _extract_key_concepts returns the concepts of the table with a
\* keyword in the lowercased query, in table order and once each, or
\* exactly <<"general">> when there is none; the list is never empty and
\* general stands alone.  The featured query is philosophical with the
\* concepts meaning and life.
C16_ConceptsInTableOrder ==
    fn_plan # NoPlan =>
        LET query_lower == Lower(fn_in.query)
            key_concepts == fn_plan.key_concepts
            Returned_concepts ==
                {key_concepts[i] : i \in 1..Len(key_concepts)}
            Matching ==
                {n \in 1..Len(concept_names) :
                    AnyIn(concept_keywords[n], query_lower)}
            Pos(x) == CHOOSE n \in 1..Len(concept_names) : concept_names[n] = x
        IN /\ Len(key_concepts) > 0
           /\ Matching = {} => key_concepts = <<"general">>
           /\ Matching # {} =>
                  /\ Returned_concepts = {concept_names[n] : n \in Matching}
                  /\ \A i, j \in 1..Len(key_concepts) :
                         i < j => Pos(key_concepts[i]) < Pos(key_concepts[j])
           /\ "general" \in Returned_concepts => Len(key_concepts) = 1
           /\ fn_in.query = featured_query_chars =>
                  /\ fn_plan.research_type = "philosophical"
                  /\ {"meaning", "life"} \subseteq Returned_concepts

\* C16 witness: the featured query has been planned.
C16_Witness ==
    /\ fn_in.query = featured_query_chars
    /\ fn_plan # NoPlan
    /\ fn_plan.key_concepts = <<"meaning", "life">>

\* C17: two calls with the same query have identical plans, whatever the
\* orchestrator, its session id and the calls made before, and the step that
\* computes the plan changes no orchestrator attribute, no directory, no log
\* handler and no file.
C17_PlanDependsOnQueryOnly ==
    /\ [](\A c, d \in Calls :
            /\ plan[c] # NoPlan
            /\ plan[d] # NoPlan
            /\ c_query[c] = c_query[d]
            => plan[c] = plan[d])
    /\ [][\A c \in Calls :
            pc[c] = "plan" /\ pc'[c] # "plan" =>
                UNCHANGED <<session_id, session_logger, handlers, dirs, files>>]_vars

\* C17 witness: calls on two orchestrators with different session ids have
\* planned the same query.
C17_Witness ==
    \E c, d \in Calls :
        /\ Entered(c) /\ Entered(d)
        /\ Sid(c) # Sid(d)
        /\ c_query[c] = sample_query
        /\ c_query[d] = sample_query
        /\ plan[c] # NoPlan
        /\ plan[d] # NoPlan
        /\ plan[c].research_type = "technical"

\* C18: the report written is the enriched one exactly when the lowercased
\* query contains "meaning of life" and the generic one otherwise; the
\* enriched report is the same for every analysis with the same confidence
\* score; the generic report contains every key finding, every theme and
\* the confidence score of its analysis.
C18_TemplateByFeaturedPhrase ==
    fn_report.status = "returned" /\ fn_read.status = "read" =>
        LET text == fn_read.content
            analysis == fn_in.analysis
            featured == Contains(Lower(fn_in.query), meaning_of_life)
            Has(t) == \E i \in 1..Len(text) : text[i] = t
            Written(b) ==
                read_report(utf8_encode(TranslateNewlines(
                    generate_meaning_of_life_report(fn_in.session_id, b),
                    fn_in.linesep)))
        IN /\ featured <=> (text[1] = "# Research Report: The Meaning of Life")
           /\ ~featured <=> (text[1] = "# Research Report:")
           /\ featured =>
                  \A b \in Analyses :
                      Get(b, "confidence_score", "absent")
                          = Get(analysis, "confidence_score", "absent")
                      => Written(b) = text
           /\ ~featured =>
                  /\ \A k \in 1..Len(Get(analysis, "key_findings", <<>>)) :
                         Has(analysis.key_findings[k])
                  /\ \A k \in 1..Len(Get(analysis, "themes", <<>>)) :
                         Has(analysis.themes[k])
                  /\ "confidence_score" \in DOMAIN analysis =>
                         Has(analysis.confidence_score)

\* C18 witness: a query that contains the featured phrase in other letter
\* case, and is not the featured query, got the enriched report.
C18_Witness ==
    /\ fn_read.status = "read"
    /\ fn_report.status = "returned"
    /\ fn_in.query # featured_query_chars
    /\ fn_in.analysis # pipeline_analysis
    /\ Len(fn_read.content) > 0
    /\ fn_read.content[1] = "# Research Report: The Meaning of Life"

\* C19: the word_count _generate_report returned is the number of
\* whitespace-delimited words of the report file it wrote, read back.
C19_WordCountRoundTrip ==
    fn_report.status = "returned" /\ fn_read.status = "read" =>
        fn_report.word_count = WordCount(fn_read.content)

\* C19 witness: a report whose query holds a carriage return and a
\* no-break space was written with "\r\n" line ends and read back.
C19_Witness ==
    /\ fn_report.status = "returned"
    /\ fn_read.status = "read"
    /\ fn_in.linesep = <<"\r", "\n">>
    /\ fn_in.query = <<"\r", "\n", nbsp>>
    /\ fn_report.word_count > 0

\* C20 as stated: every call that has ended has returned a result whose
\* status is completed or failed.
C20_EndsWithResult ==
    \A c \in Calls :
        pc[c] \in {"done", "raised"} =>
            result[c].status \in {"completed", "failed"}

\* C20 amended: every call that is entered eventually ends: it returns a
\* result whose status is completed or failed, or the error of its session
\* set-up (before the try block) is raised to the caller.
C20_EveryCallEnds ==
    \A c \in Calls :
        (pc[c] # "idle") ~>
            \/ pc[c] = "raised"
            \/ pc[c] = "done" /\ result[c].status \in {"completed", "failed"}

\* C20 witness: one call ended with a result, another with the set-up
\* error raised.
C20_Witness ==
    \E c, d \in Calls :
        /\ pc[c] = "done"
        /\ result[c].status = "completed"
        /\ pc[d] = "raised"
        /\ result[d] = NoResult

\* C28: the session logger a call uses, once its set-up has returned, has
\* its file handler under that call's output_dir.
C28_SessionLogInOutputDir ==
    \A c \in Calls :
        Entered(c) /\ pc[c] \notin {"setup", "raised"} =>
            handlers[Sid(c)] = c_dir[c]

\* C21: once a POST /research/conduct has been answered for a completed
\* session, GET /reports/list includes that session's report and
\* GET /reports/<session_id> answers 200, whatever output_dir was used.
C21_CompletedReportReachable ==
    /\ reports_api.listed.asked =>
           \A c \in reports_api.listed.completed :
               Sid(c) \in reports_api.listed.filenames
    /\ reports_api.got.asked =>
           \A c \in reports_api.got.completed :
               Sid(c) = reports_api.got.report_id => reports_api.got.code = 200

\* C22: a POST /research/conduct with a missing body or without a query is
\* answered with 400 and 'Query is required', not with a 5xx.
C22_InvalidPostIsClientError ==
    reports_api.invalid_post # NoResponse =>
        /\ reports_api.invalid_post.code = 400
        /\ reports_api.invalid_post.message = "Query is required"

\* C23: GET /system/health answers 'healthy' exactly when check_environment
\* finds the environment valid, and 'unhealthy' otherwise.
C23_HealthyIffEnvironmentValid ==
    health.response # NoResponse =>
        /\ health.response.status \in {"healthy", "unhealthy"}
        /\ (health.response.status = "healthy")
               <=> check_environment(health.env).valid

\* C24: the orchestrator's state is processing while an execute call is in
\* progress; once none is, it is completed if the last call to end returned
\* and error if it raised, and it is never processing, also after a
\* cancelled call.
C24_StateTracksCalls ==
    LET in_progress == {k \in Executes : fw_orch.call[k] = "awaiting"}
        ended == fw_orch.ended
    IN /\ in_progress # {} => fw_orch.state = "processing"
       /\ in_progress = {} /\ ended # <<>> =>
              /\ fw_orch.state # "processing"
              /\ ended[Len(ended)] = "returned" => fw_orch.state = "completed"
              /\ ended[Len(ended)] = "raised" => fw_orch.state = "error"

\* C25 as stated: every route_request call that selected a component and
\* ended has appended exactly one entry to execution_history, and a call
\* that no component could handle has appended none.
C25_EveryRoutedCallAppendsOne ==
    \A k \in Routes :
        LET r == mediator.route[k]
        IN /\ r.at \in {"returned", "raised", "cancelled"} =>
                  Len(r.appended) = 1
           /\ r.at = "NameError" => r.appended = <<>>

\* C25, amended: a route_request call whose component returned or raised
\* an Exception has appended exactly one entry, naming the selected
\* component, with success true after a return and success false plus the
\* error text after an Exception; a cancelled call and a call that no
\* registered component could handle have appended none; the history holds
\* the appended entries and nothing else.
C25_OneEntryPerEndedExecute ==
    /\ \A k \in Routes :
           LET r == mediator.route[k]
           IN /\ r.at \in {"returned", "raised"} =>
                     /\ Len(r.appended) = 1
                     /\ r.appended[1].component_type = r.selected
                     /\ r.selected \in Registered
                     /\ can_handle(r.selected, r.request_type)
                     /\ r.appended[1].success = (r.at = "returned")
                     /\ r.at = "raised" =>
                            /\ "error" \in DOMAIN r.appended[1]
                            /\ r.appended[1].error \in ErrorTexts
              /\ r.at \in {"not called", "awaiting", "NameError",
                           "cancelled"} => r.appended = <<>>
    /\ Len(mediator.execution_history) =
           Cardinality({k \in Routes :
                            mediator.route[k].at \in {"returned", "raised"}})
    /\ \A k \in Routes :
           \A i \in 1..Len(mediator.route[k].appended) :
               \E j \in 1..Len(mediator.execution_history) :
                   mediator.execution_history[j] =
                       mediator.route[k].appended[i]

\* a call whose component raised has ended after another call returned
C25_Witness ==
    /\ mediator.route[1].at = "raised"
    /\ mediator.route[1].appended[1].error = "model unavailable"
    /\ mediator.route[2].at = "returned"
    /\ Len(mediator.execution_history) = 2
    /\ mediator.execution_history[1].success

\* C26: agent_results maps each agent type to the result or exception of
\* the agent registered under that type; a requested type with no
\* registered agent has no entry, and a requested type with a registered
\* agent has one.
C26_ResultsUnderOwnType ==
    LET inv == agent_pool.investigation
        requested == {inv.agent_types[i] : i \in 1..Len(inv.agent_types)}
    IN inv.called =>
           /\ \A e \in inv.agent_results :
                  /\ e[1] \in agent_pool.agents
                  /\ e[2].agent = e[1]
           /\ \A t \in requested \cap agent_pool.agents :
                  \E e \in inv.agent_results : e[1] = t

\* C30: _deduplicate_results keeps, in input order, exactly the findings
\* that no earlier finding matches in both topic and methodology, and
\* applying it to its own result changes nothing.
C30_FirstOfEachPairKept ==
    LET results == preprint.results
        first_of_pair ==
            {i \in 1..Len(results) :
                 \A j \in 1..(i - 1) :
                     \/ results[j].topic # results[i].topic
                     \/ results[j].methodology # results[i].methodology}
        kept == preprint.unique_results
    IN preprint.applied =>
           /\ Len(kept) = Cardinality(first_of_pair)
           /\ \A i \in first_of_pair :
                  kept[Cardinality({j \in first_of_pair : j <= i})] =
                      results[i]
           /\ preprint.again = kept

\* C27: the validator's cache never holds a value different from the
\* configuration stored in the file, and get_config returns the
\* configuration stored in the file (None when there is no file).
C27_CacheAgreesWithFile ==
    LET stored == IF validator.file.exists
                  THEN yaml_safe_load(validator.file.text)
                  ELSE None
    IN /\ validator.config_cache # NotCached =>
              validator.config_cache = stored
       /\ validator.last.op = "get_config" =>
              validator.last.returned = stored

\* C29: initialize returns True only if its connectivity check succeeded;
\* with the server unreachable it returns False.
C29_TrueOnlyIfConnected ==
    /\ ollama.returned = "True" => ollama.connected = "True"
    /\ ollama.returned # "not called" /\ ollama.connected = "False" =>
           ollama.returned = "False"

=============================================================================
